---- MODULE Spec2Model ----
(***************************************************************************)
(* The asynchronous job subsystem of AI-API/app.py: the three async        *)
(* submission endpoints (create_async_task), the three Celery tasks run    *)
(* by the worker pool, the Redis-backed queue and result backend they      *)
(* share, and the status poll (get_task_result).                           *)
(*                                                                         *)
(* Celery/Redis behaviour the code relies on is modelled at its call       *)
(* sites: .delay() publishes one message and writes nothing to the result  *)
(* backend, an id without a stored record reads as PENDING, a task         *)
(* message is acknowledged when its execution starts (acks_late is not     *)
(* set), an unacknowledged message can be delivered again, and a worker    *)
(* process can die and be restarted.                                       *)
(***************************************************************************)
EXTENDS Integers, Sequences, FiniteSets, TLC

\* ---------------------------------------------------------------- bounds
MaxTasks == 2
NumWorkers == 2
MaxFaults == 1

Ids == 1..MaxTasks
Workers == 1..NumWorkers

\* ------------------------------------------------------------ data model
\* The task types the three async routes pass to create_async_task.
TaskTypes == {"zh_to_en", "en_to_zh", "summarize"}

\* Request bodies: no JSON object at all, an object without "text", an
\* object with empty text, objects with a text.
Bodies ==
  { [json |-> FALSE, haskey |-> FALSE, text |-> ""],
    [json |-> TRUE,  haskey |-> FALSE, text |-> ""],
    [json |-> TRUE,  haskey |-> TRUE,  text |-> ""],
    [json |-> TRUE,  haskey |-> TRUE,  text |-> "a"],
    [json |-> TRUE,  haskey |-> TRUE,  text |-> "b"] }

\* data.get('text', '')
dataGet(body) == IF body.haskey THEN body.text ELSE ""

\* Mutant of not_text: only a missing text is refused (`text is None`).
not_text_NoneOnly(text) == FALSE

\* `not text` of line 239, for a text that is a string.
not_text(text) == text = ""

\* Python values that reach the result backend or a response.
None == [tag |-> "None", fn |-> "", original |-> "", translated |-> ""]
TypeError(f) == [tag |-> "TypeError", fn |-> f, original |-> "", translated |-> ""]
RuntimeError(f) == [tag |-> "RuntimeError", fn |-> f, original |-> "", translated |-> ""]
Returned(f, code, text, out) ==
  [tag |-> "Response" \o code, fn |-> f, original |-> text, translated |-> out]

\* Python truthiness of a value (None is falsy, objects are truthy).
Truthy(v) == v.tag # "None"

\* str(value), for the values a failed task's info can hold.
Str(v) ==
  CASE v.tag = "TypeError" ->
         v.fn \o "() takes 0 positional arguments but 1 was given"
    [] v.tag = "RuntimeError" -> "Working outside of application context."
    [] v.tag = "None" -> "None"
    [] OTHER -> v.tag

\* Mutant of TaskOf: every task type is dispatched to the summarize task.
TaskOf_AllSummarize(task_type) == "summarize_async"

\* The Celery task each task type is dispatched to.
TaskOf(task_type) ==
  CASE task_type = "zh_to_en"  -> "trans_zh_to_en_async"
    [] task_type = "en_to_zh"  -> "trans_en_to_zh_async"
    [] task_type = "summarize" -> "summarize_async"

\* Mutant of ViewOf: the three tasks all call the first view.
ViewOf_CopyPaste(task) == "trans_zh_to_en"

\* The view function each Celery task calls after its sleep.
ViewOf(task) ==
  CASE task = "trans_zh_to_en_async" -> "trans_zh_to_en"
    [] task = "trans_en_to_zh_async" -> "trans_en_to_zh"
    [] task = "summarize_async"      -> "summarize"

\* The kind of work each synchronous view is routed for (lines 65, 100,
\* 134).
KindOfView(view) ==
  CASE view = "trans_zh_to_en" -> "zh_to_en"
    [] view = "trans_en_to_zh" -> "en_to_zh"
    [] view = "summarize"      -> "summarize"
    [] OTHER -> ""

\* The text-service operation each view calls.
ServiceOp(view) ==
  CASE view = "trans_zh_to_en" -> "translate_en_to_zh"
    [] view = "trans_en_to_zh" -> "translate_en_to_zh"
    [] view = "summarize"      -> "summarize"

\* Positional parameters the view functions declare, and the arguments the
\* Celery tasks pass them.
ViewArity == 0
TaskCallArgs == 1

NoMsg == [id |-> 0, task |-> "", text |-> ""]
NoMeta == [status |-> "NONE", result |-> None]

VARIABLES
  queue,      \* the broker's list of task messages
  store,      \* the result backend: id -> stored meta, NoMeta when no key
  nextId,     \* how many task ids have been generated so far, plus one
  wpc,        \* each worker's position: "idle", "reserved", "sleep"
  wmsg,       \* the message each worker holds
  wsvc,       \* whether the text service answers during the worker's task
  faults,     \* redeliveries and worker crashes so far
  issued,     \* the accepted submissions, in order: id, task type, text
  ppc,        \* the poll request's position: "idle" or "l199"
  pid,        \* the task id of the poll in progress
  response,   \* the last HTTP response sent
  termSeen    \* id -> the first terminal status a poll returned for it

vars == <<queue, store, nextId, wpc, wmsg, wsvc, faults, issued, ppc, pid,
          response, termSeen>>

NoResponse ==
  [op |-> "none", req |-> "", code |-> "", id |-> 0, status |-> "",
   result |-> None, error |-> "<absent>"]

Init ==
  /\ queue = <<>>
  /\ store = [i \in Ids |-> NoMeta]
  /\ nextId = 1
  /\ wpc = [w \in Workers |-> "idle"]
  /\ wmsg = [w \in Workers |-> NoMsg]
  /\ wsvc = [w \in Workers |-> TRUE]
  /\ faults = 0
  /\ issued = <<>>
  /\ ppc = "idle"
  /\ pid = 0
  /\ response = NoResponse
  /\ termSeen = [i \in Ids |-> "none"]

\* ------------------------------------------------------- result backend
\* backend.get_task_meta(id): an id with no stored key reads as PENDING
\* with result None, whether or not it was ever issued.
get_task_meta(st, id) ==
  IF st[id].status = "NONE" THEN [status |-> "PENDING", result |-> None]
  ELSE st[id]

\* Mutant of store_result: the key written does not depend on the task id,
\* so the write lands on every record.
store_result_SharedKey(st, id, result, state) ==
  [i \in DOMAIN st |-> [status |-> state, result |-> result]]

\* backend.store_result(id, result, state) of the key-value backend: the
\* key is overwritten unless the stored status is SUCCESS.
store_result(st, id, result, state) ==
  IF st[id].status = "SUCCESS" THEN st
  ELSE [st EXCEPT ![id] = [status |-> state, result |-> result]]

\* The states AsyncResult caches once read (celery.states.READY_STATES).
IsReady(meta) == meta.status \in {"SUCCESS", "FAILURE", "REVOKED"}

\* ------------------------------------------------------------ submission
\* celery.utils.uuid() as called inside .delay(): the n-th id generated.
uuid(n) == n

\* Mutant of delay: the message is written before the failure is raised.
delay_PublishThenRaise(q, id, task, text, brokerUp) ==
  [raised |-> ~brokerUp,
   queue |-> Append(q, [id |-> id, task |-> task, text |-> text])]

\* task.delay(text): with the broker reachable, one message carrying the
\* new id, the task name and the text is appended to the queue; with the
\* broker unreachable the call raises and nothing is published.
delay(q, id, task, text, brokerUp) ==
  IF brokerUp
  THEN [raised |-> FALSE, queue |-> Append(q, [id |-> id, task |-> task, text |-> text])]
  ELSE [raised |-> TRUE, queue |-> q]

\* What a request body holds: no JSON object, no (or an empty) text, a text.
ReqClass(body) ==
  IF ~body.json THEN "nojson" ELSE IF dataGet(body) = "" THEN "notext" ELSE "text"

\* The response of a submission: its HTTP code and, when accepted, the
\* task id and status of its data.  req notes what the request held.
SubmitResponse(body, code, id, status) ==
  [op |-> "submit", req |-> ReqClass(body), code |-> code, id |-> id,
   status |-> status, result |-> None, error |-> "<absent>"]

\* create_async_task(task_type, request), lines 228-275.  brokerUp is
\* whether .delay() can reach the broker during this request.
create_async_task(task_type, body, brokerUp) ==
  LET text == dataGet(body)
      reject(code) ==
        /\ response' = SubmitResponse(body, code, 0, "")
        /\ UNCHANGED <<queue, store, nextId, issued>>
  IN
  /\ UNCHANGED <<wpc, wmsg, wsvc, faults, ppc, pid, termSeen>>
  /\ IF ~body.json THEN reject("500")              \* data.get raises
     ELSE IF not_text(text) THEN reject("400")
     ELSE IF task_type \notin TaskTypes THEN reject("400")
     ELSE LET task == delay(queue, uuid(nextId), TaskOf(task_type), text, brokerUp) IN
          IF task.raised                           \* except Exception
          THEN /\ response' = SubmitResponse(body, "500", 0, "")
               /\ queue' = task.queue
               /\ UNCHANGED <<store, nextId, issued>>
          ELSE /\ nextId <= MaxTasks
               /\ queue' = task.queue
               /\ nextId' = nextId + 1
               /\ issued' = Append(issued, [id |-> uuid(nextId),
                                            kind |-> task_type, text |-> text])
               /\ response' =
                    SubmitResponse(body, "200", uuid(nextId), "pending")
               /\ UNCHANGED store

async_zh_to_en_translation ==
  \E body \in Bodies, brokerUp \in BOOLEAN :
    create_async_task("zh_to_en", body, brokerUp)

async_en_to_zh_translation ==
  \E body \in Bodies, brokerUp \in BOOLEAN :
    create_async_task("en_to_zh", body, brokerUp)

async_summarize ==
  \E body \in Bodies, brokerUp \in BOOLEAN :
    create_async_task("summarize", body, brokerUp)

\* ------------------------------------------------------------ the views
\* The body of a synchronous view, lines 71-98 (and 106-132, 140-167).
\* Inside a request it validates the text and calls the text service;
\* outside one, request.get_json() raises, and so does the jsonify of the
\* except block, so the exception leaves the view.
ViewBody(view, inRequest, body, svcOk) ==
  IF ~inRequest THEN [raised |-> TRUE, value |-> RuntimeError(view)]
  ELSE IF ~body.json THEN
    [raised |-> FALSE, value |-> Returned(view, "500", "", "")]
  ELSE IF dataGet(body) = "" THEN
    [raised |-> FALSE, value |-> Returned(view, "400", "", "")]
  ELSE IF ~svcOk THEN
    [raised |-> FALSE, value |-> Returned(view, "500", "", "")]
  ELSE [raised |-> FALSE,
        value |-> Returned(view, "200", dataGet(body),
                           ServiceOp(view) \o "(" \o dataGet(body) \o ")")]

\* Calling view(args...) from Python: a call whose argument count differs
\* from the declared parameters raises TypeError before the body runs.
CallView(view, nargs, inRequest, body, svcOk) ==
  IF nargs # ViewArity THEN [raised |-> TRUE, value |-> TypeError(view)]
  ELSE ViewBody(view, inRequest, body, svcOk)

\* The body of a Celery task after its sleep: `return <view>(text)`, run in
\* the worker process, where no request is active.
TaskBody(task, text, svcOk) ==
  CallView(ViewOf(task), TaskCallArgs, FALSE,
           [json |-> TRUE, haskey |-> TRUE, text |-> text], svcOk)

\* The calls to the text service (trs) that a call of a view makes: the
\* one of line 83 (117, 151), reached only when the call binds its
\* arguments, a request is active and the text passes validation.
ServiceCalls(view, nargs, inRequest, body) ==
  IF nargs # ViewArity \/ ~inRequest \/ ~body.json \/ dataGet(body) = ""
  THEN {}
  ELSE {[op |-> ServiceOp(view), text |-> dataGet(body)]}

\* The calls to the text service that the body of a Celery task makes.
TaskServiceCalls(task, text) ==
  ServiceCalls(ViewOf(task), TaskCallArgs, FALSE,
               [json |-> TRUE, haskey |-> TRUE, text |-> text])

\* The kind of work each operation of the text service performs.
KindOfOp(op) ==
  CASE op = "translate_en_to_zh" -> "en_to_zh"
    [] op = "summarize"          -> "summarize"
    [] OTHER -> ""

\* ------------------------------------------------------------ the workers
\* A worker takes the message at the head of the queue.  The message is
\* reserved, not yet acknowledged.
WorkerReceive(w) ==
  /\ wpc[w] = "idle"
  /\ queue # <<>>
  /\ wmsg' = [wmsg EXCEPT ![w] = Head(queue)]
  /\ queue' = Tail(queue)
  /\ wpc' = [wpc EXCEPT ![w] = "reserved"]
  /\ UNCHANGED <<store, nextId, wsvc, faults, issued, ppc, pid, response, termSeen>>

\* The task starts: its message is acknowledged and the first statement of
\* the task body, self.update_state(state='PROCESSING'), writes the record
\* (lines 281, 289, 296).  The worker then sleeps.  svcOk is whether the
\* text service answers or fails while this task executes.
WorkerStart(w) ==
  /\ wpc[w] = "reserved"
  /\ store' = store_result(store, wmsg[w].id, None, "PROCESSING")
  /\ wpc' = [wpc EXCEPT ![w] = "sleep"]
  /\ \E svcOk \in BOOLEAN : wsvc' = [wsvc EXCEPT ![w] = svcOk]
  /\ UNCHANGED <<queue, nextId, wmsg, faults, issued, ppc, pid, response, termSeen>>

\* The sleep ends and the task body runs `return <view>(text)` (lines 284,
\* 291, 298).  Celery records SUCCESS with the returned value, or FAILURE
\* with the exception when the body raises; the worker takes the next task
\* either way.
WorkerFinish(w) ==
  /\ wpc[w] = "sleep"
  /\ LET out == TaskBody(wmsg[w].task, wmsg[w].text, wsvc[w]) IN
     store' = store_result(store, wmsg[w].id, out.value,
                           IF out.raised THEN "FAILURE" ELSE "SUCCESS")
  /\ wpc' = [wpc EXCEPT ![w] = "idle"]
  /\ wmsg' = [wmsg EXCEPT ![w] = NoMsg]
  /\ wsvc' = [wsvc EXCEPT ![w] = TRUE]
  /\ UNCHANGED <<queue, nextId, faults, issued, ppc, pid, response, termSeen>>

\* The broker delivers again a message that a worker has reserved and not
\* acknowledged (the Redis transport's visibility timeout, or a lost
\* connection): a copy returns to the queue while the worker keeps its own.
Redeliver(w) ==
  /\ wpc[w] = "reserved"
  /\ faults < MaxFaults
  /\ faults' = faults + 1
  /\ queue' = Append(queue, wmsg[w])
  /\ UNCHANGED <<store, nextId, wpc, wmsg, wsvc, issued, ppc, pid, response, termSeen>>

\* A worker process dies and is restarted.  A reserved message was never
\* acknowledged and returns to the queue; the message of a task that had
\* started was acknowledged at its start (acks_late is not set on the
\* tasks, lines 278, 287, 294) and is gone.
WorkerCrash(w) ==
  /\ wpc[w] # "idle"
  /\ faults < MaxFaults
  /\ faults' = faults + 1
  /\ queue' = IF wpc[w] = "reserved" THEN Append(queue, wmsg[w]) ELSE queue
  /\ wpc' = [wpc EXCEPT ![w] = "idle"]
  /\ wmsg' = [wmsg EXCEPT ![w] = NoMsg]
  /\ wsvc' = [wsvc EXCEPT ![w] = TRUE]
  /\ UNCHANGED <<store, nextId, issued, ppc, pid, response, termSeen>>

\* ---------------------------------------------------------------- polling
\* The literal of line 213 used when the task's info is falsy.
UnknownError == "unknown error"

PollResponse(id, code, status, result, error) ==
  [op |-> "poll", req |-> "", code |-> code, id |-> id, status |-> status,
   result |-> result, error |-> error]

\* Mutant of RenderTail: the failed branch returns the stored result too.
RenderTail_WithResult(id, meta) ==
  IF meta.status = "SUCCESS"
  THEN PollResponse(id, "200", "completed", meta.result, "<absent>")
  ELSE PollResponse(id, "200", "failed", meta.result,
                    IF Truthy(meta.result) THEN Str(meta.result) ELSE UnknownError)

\* Lines 204-214: the branches after 'PENDING' and 'PROCESSING'.
RenderTail(id, meta) ==
  IF meta.status = "SUCCESS"
  THEN PollResponse(id, "200", "completed", meta.result, "<absent>")
  ELSE PollResponse(id, "200", "failed", None,
                    IF Truthy(meta.result) THEN Str(meta.result) ELSE UnknownError)

\* Lines 216-220 and the observer of terminal statuses.
Respond(r) ==
  /\ response' = r
  /\ termSeen' =
       IF r.code = "200" /\ r.status \in {"completed", "failed"}
          /\ termSeen[r.id] = "none"
       THEN [termSeen EXCEPT ![r.id] = r.status]
       ELSE termSeen

\* The response get_task_result returns when every read of the request sees
\* the backend in the same condition st (lines 194-214).
PollAnswer(st, id) ==
  LET meta == get_task_meta(st, id) IN
  IF meta.status = "PENDING"
  THEN PollResponse(id, "200", "pending", None, "<absent>")
  ELSE IF meta.status = "PROCESSING"
  THEN PollResponse(id, "200", "processing", None, "<absent>")
  ELSE RenderTail(id, meta)

\* Mutant of PollStart: a poll that reads a finished task consumes its
\* record (task_result.forget() after the read).
PollStart_Forget(id, backendUp) ==
  /\ ppc = "idle"
  /\ backendUp
  /\ IsReady(get_task_meta(store, id))
  /\ store' = [store EXCEPT ![id] = NoMeta]
  /\ Respond(RenderTail(id, get_task_meta(store, id)))
  /\ UNCHANGED <<queue, nextId, wpc, wmsg, wsvc, faults, issued, ppc, pid>>

\* get_task_result(task_id) up to its first read of task_result.state
\* (lines 189-198).  A ready state is cached by the AsyncResult, so the
\* later comparisons of the same request see the same meta.
PollStart(id, backendUp) ==
  /\ ppc = "idle"
  /\ UNCHANGED <<queue, store, nextId, wpc, wmsg, wsvc, faults, issued>>
  /\ IF ~backendUp
     THEN /\ Respond(PollResponse(id, "500", "", None, "<absent>"))
          /\ UNCHANGED <<ppc, pid>>
     ELSE LET meta == get_task_meta(store, id) IN
          IF meta.status = "PENDING"
          THEN /\ Respond(PollResponse(id, "200", "pending", None, "<absent>"))
               /\ UNCHANGED <<ppc, pid>>
          ELSE IF IsReady(meta)
          THEN /\ Respond(RenderTail(id, meta))
               /\ UNCHANGED <<ppc, pid>>
          ELSE /\ ppc' = "l199"
               /\ pid' = id
               /\ UNCHANGED <<response, termSeen>>

\* The second read of task_result.state (line 199) and what follows it.
PollContinue(backendUp) ==
  /\ ppc = "l199"
  /\ ppc' = "idle"
  /\ pid' = 0
  /\ UNCHANGED <<queue, store, nextId, wpc, wmsg, wsvc, faults, issued>>
  /\ IF ~backendUp
     THEN Respond(PollResponse(pid, "500", "", None, "<absent>"))
     ELSE LET meta == get_task_meta(store, pid) IN
          IF meta.status = "PROCESSING"
          THEN Respond(PollResponse(pid, "200", "processing", None, "<absent>"))
          ELSE Respond(RenderTail(pid, meta))

\* ---------------------------------------------------------- specification
Next ==
  \/ async_zh_to_en_translation
  \/ async_en_to_zh_translation
  \/ async_summarize
  \/ \E w \in Workers : WorkerReceive(w)
  \/ \E w \in Workers : WorkerStart(w)
  \/ \E w \in Workers : WorkerFinish(w)
  \/ \E w \in Workers : Redeliver(w)
  \/ \E w \in Workers : WorkerCrash(w)
  \/ \E id \in Ids, backendUp \in BOOLEAN : PollStart(id, backendUp)
  \/ \E backendUp \in BOOLEAN : PollContinue(backendUp)

Spec == Init /\ [][Next]_vars

\* The worker pool keeps running: a worker that can take a step does.
FairSpec == Spec /\ \A w \in Workers :
  WF_vars(WorkerReceive(w) \/ WorkerStart(w) \/ WorkerFinish(w))

\* ------------------------------------------------------- shared notions
Terminal == {"SUCCESS", "FAILURE"}

\* The ids returned by the accepted submissions so far.
IssuedIds == {issued[i].id : i \in 1..Len(issued)}

\* The accepted submission that returned id.
TaskOfId(id) == issued[CHOOSE i \in 1..Len(issued) : issued[i].id = id]

\* The last response is a status poll answered with HTTP 200.
Polled == response.op = "poll" /\ response.code = "200"

\* ------------------------------------------------------------------ C1
\* C1: once a poll has returned 'completed' or 'failed' for a task id,
\* every later poll of that id returns the same status.  termSeen holds
\* the first terminal status a poll returned for the id; the claim is that
\* no answered poll of the id reports anything else afterwards.
C1_MonotonicPolls ==
  (Polled /\ termSeen[response.id] # "none")
    => response.status = termSeen[response.id]

\* ------------------------------------------------------------------ C2
\* C2: the states written for a task go Pending, Processing, then exactly
\* one of Success or Failed: a record only ever changes from no state
\* (read as Pending) to PROCESSING, or from PROCESSING to a terminal state,
\* and never changes once terminal.
C2_OrderedWrites ==
  [][\A id \in Ids :
       store'[id] # store[id] =>
         \/ store[id].status = "NONE" /\ store'[id].status = "PROCESSING"
         \/ store[id].status = "PROCESSING" /\ store'[id].status \in Terminal]_vars

\* ------------------------------------------------------------------ C3
\* C3: a poll of an id that no submission ever returned is answered with
\* a not-found condition, distinguishable from the 'pending' of a
\* submitted task: such a poll is never answered with status 'pending'.
C3_UnknownIdNotPending ==
  (Polled /\ response.id \notin IssuedIds) => response.status # "pending"

\* ------------------------------------------------------------------ C4
\* C4: polling the id of a valid zh_to_en submission converges to
\* 'completed' with the original text and a non-empty translation: the
\* terminal answer a poll gives for such a task is that one.
C4_ZhToEnCompletes ==
  (/\ Polled
   /\ response.status \in {"completed", "failed"}
   /\ response.id \in IssuedIds
   /\ TaskOfId(response.id).kind = "zh_to_en")
    => /\ response.status = "completed"
       /\ response.result.original = TaskOfId(response.id).text
       /\ response.result.translated # ""

\* ------------------------------------------------------------------ C5
\* A worker is executing the task of id while the text service fails.
ServiceFailsDuring(id) ==
  \E w \in Workers : wpc[w] = "sleep" /\ wmsg[w].id = id /\ ~wsvc[w]

\* The record of id is terminal and every poll renders it as 'failed' with
\* a non-empty error and a null result.
RendersFailed(id) ==
  LET r == RenderTail(id, get_task_meta(store, id)) IN
  /\ store[id].status \in Terminal
  /\ r.status = "failed"
  /\ r.error \notin {"<absent>", ""}
  /\ r.result = None

\* C5: if the text service fails while a worker is executing a task, the
\* polls of the task's id come to return 'failed' with a non-empty error
\* and a null result, and never return 'completed' for that task.
C5_ServiceFailureSurfaces ==
  \A id \in Ids :
    [](ServiceFailsDuring(id) =>
         /\ <>RendersFailed(id)
         /\ [](~(Polled /\ response.id = id /\ response.status = "completed")))

\* ------------------------------------------------------------------ C6
\* C6: in every answered poll, 'pending' and 'processing' carry a null
\* result and no error; 'completed' carries a non-null result and no
\* error; 'failed' carries a non-empty error and a null result.
C6_ResponseShape ==
  Polled =>
    /\ response.status \in {"pending", "processing", "completed", "failed"}
    /\ response.status \in {"pending", "processing"} =>
         response.result = None /\ response.error = "<absent>"
    /\ response.status = "completed" =>
         response.result # None /\ response.error = "<absent>"
    /\ response.status = "failed" =>
         response.result = None /\ response.error \notin {"<absent>", ""}

\* A poll answered 'failed' for a task that a worker ran to its end.
C6_Witness ==
  /\ Polled
  /\ response.status = "failed"
  /\ store[response.id].status = "FAILURE"
  /\ response.error = Str(store[response.id].result)

C8_DispatchFailure ==
  [][(response'.op = "submit" /\ response'.req = "text") =>
       \A task_type \in TaskTypes, body \in Bodies :
         (/\ body.json /\ body.haskey /\ body.text # ""
          /\ create_async_task(task_type, body, FALSE))
           => /\ response'.code = "500"
              /\ response'.id = 0
              /\ UNCHANGED <<queue, store, nextId, issued>>]_vars

\* A valid submission failed with 500 (the broker was unreachable).
C8_Witness ==
  /\ response.op = "submit"
  /\ response.req = "text"
  /\ response.code = "500"
  /\ queue = <<>>
  /\ \A id \in Ids : store[id] = NoMeta

\* ------------------------------------------------------------------ C9
\* C9: every accepted task eventually reaches Success or Failed, given
\* that the workers keep taking the steps they can take (FairSpec).
C9_EveryTaskTerminates ==
  \A id \in Ids : (id \in IssuedIds) ~> (store[id].status \in Terminal)

\* ----------------------------------------------------------------- C10
\* C10: every returned task id differs from every other id issued so far,
\* and once all tasks are terminal each id's record holds the value
\* produced for that task's own kind and input: it comes from the view of
\* the task's kind and, if a result, carries the task's own text.
C10_DistinctIdsOwnRecords ==
  /\ \A i, j \in 1..Len(issued) : i # j => issued[i].id # issued[j].id
  /\ (\A i \in 1..Len(issued) : store[issued[i].id].status \in Terminal)
       => \A i \in 1..Len(issued) :
            LET meta == store[issued[i].id] IN
            /\ KindOfView(meta.result.fn) = issued[i].kind
            /\ meta.status = "SUCCESS" => meta.result.original = issued[i].text

\* Two tasks of different kinds were accepted and both are terminal.
C10_Witness ==
  /\ Len(issued) = 2
  /\ issued[1].kind # issued[2].kind
  /\ issued[1].text # issued[2].text
  /\ \A i \in 1..2 : store[issued[i].id].status \in Terminal

\* ----------------------------------------------------------------- C11
\* C11: a valid submission made while the broker is reachable appends
\* exactly one message to the queue, carrying a new id, the task of the
\* endpoint's kind and the submitted text; the new id reads as PENDING in
\* the result backend; the response is 200 with that id and status
\* 'pending'; and no worker takes a step within the request.
C11_ValidSubmission ==
  [][(response'.op = "submit" /\ response'.req = "text") =>
       \A task_type \in TaskTypes, body \in Bodies :
         (/\ body.json /\ body.haskey /\ body.text # ""
          /\ create_async_task(task_type, body, TRUE))
           => /\ response'.code = "200"
              /\ response'.status = "pending"
              /\ response'.id \in Ids \ IssuedIds
              /\ Len(queue') = Len(queue) + 1
              /\ SubSeq(queue', 1, Len(queue)) = queue
              /\ queue'[Len(queue')].id = response'.id
              /\ KindOfView(ViewOf(queue'[Len(queue')].task)) = task_type
              /\ queue'[Len(queue')].text = body.text
              /\ \A i \in 1..Len(queue) : queue[i].id # response'.id
              /\ get_task_meta(store', response'.id).status = "PENDING"
              /\ UNCHANGED <<store, wpc, wmsg>>]_vars

\* A submission was accepted while a worker was in the middle of another
\* task: its message is the last of the queue and its id has no record.
C11_Witness ==
  /\ response.op = "submit"
  /\ response.code = "200"
  /\ response.status = "pending"
  /\ queue # <<>>
  /\ queue[Len(queue)].id = response.id
  /\ store[response.id] = NoMeta
  /\ \E w \in Workers : wpc[w] = "sleep" /\ wmsg[w].id # response.id

\* ----------------------------------------------------------------- C12
\* C12: a step of a status poll changes neither the queue, nor the result
\* store, nor any worker's or task's state, whatever the id and the state
\* of its task; and the response of an answered poll is determined by the
\* polled id and the store alone, so two polls of an id with no write to
\* the store between them are answered alike.  (Only a poll moves ppc or
\* sets a response whose op is "poll".)
C12_PollReadOnly ==
  [][(ppc' # ppc \/ (response' # response /\ response'.op = "poll")) =>
       /\ UNCHANGED <<queue, store, nextId, wpc, wmsg, wsvc, faults, issued>>
       /\ (ppc' = "idle" /\ response'.code = "200")
            => response' = PollAnswer(store, response'.id)]_vars

\* A poll was answered 'processing' for a task that a worker is running
\* while another message waits: record, worker and queue are as they were.
C12_Witness ==
  /\ Polled
  /\ response.status = "processing"
  /\ store[response.id].status = "PROCESSING"
  /\ \E w \in Workers : wpc[w] = "sleep" /\ wmsg[w].id = response.id
  /\ queue # <<>>

\* ----------------------------------------------------------------- C13
\* C13: when the body of the task a worker executes raises, the worker
\* records the failure under that task's id and is idle again, free to
\* take the next message; the records of all other ids, the queue and the
\* other workers are left as they were.  (A worker leaves "sleep" without
\* a fault being counted only by finishing its task.)
C13_FailureIsPerTask ==
  [][\A w \in Workers :
       (/\ wpc[w] = "sleep" /\ wpc'[w] # "sleep" /\ faults' = faults
        /\ TaskBody(wmsg[w].task, wmsg[w].text, wsvc[w]).raised)
         => /\ wpc'[w] = "idle"
            /\ wmsg'[w] = NoMsg
            /\ store'[wmsg[w].id].status = "FAILURE"
            /\ \A id \in Ids \ {wmsg[w].id} : store'[id] = store[id]
            /\ \A v \in Workers \ {w} : wpc'[v] = wpc[v] /\ wmsg'[v] = wmsg[v]
            /\ queue' = queue]_vars

\* Without any redelivery or worker death, the first task failed with the
\* exception its body raised and a worker is executing the second task.
C13_Witness ==
  /\ faults = 0
  /\ store[1].status = "FAILURE"
  /\ store[1].result.tag = "TypeError"
  /\ store[2].status = "PROCESSING"
  /\ \E w \in Workers : wpc[w] = "sleep" /\ wmsg[w].id = 2

\* ----------------------------------------------------------------- C14
\* C14: at no time are two workers executing the same task id: no two
\* distinct workers are both between the start and the end of a task
\* (the span in which each writes that id's record) with the same id.
C14_SingleExecutor ==
  \A w1, w2 \in Workers :
    (w1 # w2 /\ wpc[w1] = "sleep" /\ wpc[w2] = "sleep")
      => wmsg[w1].id # wmsg[w2].id

\* ----------------------------------------------------------------- C15
\* C15: a worker that executes a task to its end has called the text
\* service operation of the kind the task was submitted with, on the text
\* it was submitted with.
C15_WorkerInvokesService ==
  [][\A w \in Workers :
       (wpc[w] = "sleep" /\ wpc'[w] # "sleep" /\ faults' = faults)
         => \E c \in TaskServiceCalls(wmsg[w].task, wmsg[w].text) :
              /\ KindOfOp(c.op) = TaskOfId(wmsg[w].id).kind
              /\ c.text = TaskOfId(wmsg[w].id).text]_vars

\* ----------------------------------------------------------------- C16
\* C16: a poll is answered 'failed' exactly when the stored state of its
\* id is none of PENDING, PROCESSING and SUCCESS; and whenever a poll is
\* answered 'failed', the task's execution has ended in failure: the
\* record holds FAILURE, no message of the id waits in the queue and no
\* worker holds or runs one.
C16_FailedOnlyAfterFailure ==
  [][(/\ ppc' = "idle"
      /\ (response' # response \/ ppc = "l199")
      /\ response'.op = "poll" /\ response'.code = "200") =>
       /\ response'.status = "failed" <=>
            get_task_meta(store, response'.id).status
              \notin {"PENDING", "PROCESSING", "SUCCESS"}
       /\ response'.status = "failed" =>
            /\ store[response'.id].status = "FAILURE"
            /\ \A i \in 1..Len(queue) : queue[i].id # response'.id
            /\ \A w \in Workers : wmsg[w].id # response'.id]_vars
====
